---- MODULE Spec2Model ----
(***************************************************************************)
(* A model of the synchronisation engine of gphotos-sync                   *)
(* (src/gphotos/GooglePhotosSync.py): the Download Orchestrator with its   *)
(* worker pool, the Indexer and the Reconciler.                            *)
(***************************************************************************)
EXTENDS Integers, Sequences, FiniteSets, TLC

(***************************************************************************)
(* Bounds of the model.                                                    *)
(***************************************************************************)
\* number of media items of the universe (ids 1..NumMedia)
NumMedia == 2
\* GooglePhotosSync.MAX_THREADS (20 in the source), scaled down
MAX_THREADS == 1
\* GooglePhotosSync.BATCH_SIZE (40 in the source), scaled down
BATCH_SIZE == 1
\* number of download runs (processes) in one behaviour
MaxRuns == 2

\* Utils.minimum_date(), the smallest date
MinimumDate == 0
\* Python's None where a date is expected
NoDate == MinimumDate - 1

Ids == 1..NumMedia

(***************************************************************************)
(* Exceptions, by class name.                                              *)
(***************************************************************************)
\* what a call of the REST api can raise
ApiExc == {"HTTPError", "RetryError", "ConnectionError"}
\* what download_batch and find_bad_items catch: (err.HTTPError, err.RetryError)
CaughtApiExc == {"HTTPError", "RetryError"}
\* what the network steps of a worker can raise
NetExc == {"HTTPError", "OSError", "KeyboardInterrupt"}
\* what the file steps of a worker can raise
FileExc == {"OSError", "KeyboardInterrupt"}

(***************************************************************************)
(* Media records and paths.                                                *)
(***************************************************************************)
\* creation timestamp of the item with this id
CreateDate(i) == i + 1
\* the date filter of a search has the granularity of a day
TicksPerDay == 2
Day(t) == t \div TicksPerDay
\* the name the remote library gives the item (items may share a name)
OrigName(i) == i \div 4
IsVideo(i) == i % 2 = 0

\* GooglePhotosMedia.set_path_by_date: the folder is derived from the
\* creation date below the media folder 'photos'
RelativeFolder(i) == <<"photos", Day(CreateDate(i))>>
\* the file name: original name with the duplicate number appended
FileName(i, dup) == <<"IMG", OrigName(i), dup>>

\* a path of the local file system: the folder and the file name
Path(folder, name) == [dir |-> folder, name |-> name]
\* os.path.join(local_folder, media_item.filename)
local_full_path(r) == Path(r.Folder, r.FileName)
\* tempfile.NamedTemporaryFile(dir=local_folder, delete=False): a fresh
\* name for every task of every run
temp_file(r, run) == Path(r.Folder, <<"tmp", r.Id, run>>)

VARIABLES
    \* ---- persisted state: the metadata store, the disk, the ledger file
    store,                \* LocalData: the set of media records
    scan_date,            \* LocalData: the persisted ScanWatermark (NoDate = none)
    files,                \* the paths of the files under the root folder
    ledger_file,          \* BadIds as persisted by store_ids
    \* ---- a GooglePhotosSync instance
    bad_ids,              \* self.bad_ids (the ids, in memory)
    pool_future_to_media, \* the dict, in insertion order: a sequence of ids
    futures,              \* the Future (and its task) of every id of this run
    files_downloaded,
    files_download_started,
    files_download_skipped,
    files_download_failed,
    \* ---- the coordinating thread inside download_photo_media
    pc,                   \* where the coordinator is
    candidates,           \* what get_media_by_search has still to yield
    batch,                \* the batch dict of the current block (ids, in order)
    queue,                \* the items download_batch / find_bad_items still loop over
    futures_left,         \* the list the finally clause iterates over
    raised,               \* the exception that is propagating through finally
    exit,                 \* how control left download_photo_media
    stored,               \* store_ids() was called in this run
    reported,             \* the summary was logged and report() called in this run
    runs,                 \* number of runs started
    \* ---- history of the current run
    screen_outcome,       \* id -> what the screening decided
    resolved,             \* ids for which a batchGet or get was issued
    get_result,           \* id -> result of the per-item get of find_bad_items
    fallback_of,          \* ids of batches whose batchGet failed and was caught
    bad_at_screen,        \* ids that were in the ledger when they were screened
    \* ---- the remote library and the Indexer (index_photos_media)
    library,              \* the remote items: records [id, modify]
    latest_download,      \* self._latest_download
    startDate,            \* self._startDate (NoDate = None)
    endDate,              \* self._endDate (NoDate = None)
    rescan,               \* self._rescan
    includeVideo,         \* self.includeVideo
    files_indexed,
    files_index_skipped,
    ipc,                  \* where index_photos_media is
    start_date,           \* the local start_date of index_photos_media
    remaining,            \* the descriptors the catalog has still to return
    page,                 \* the mediaItems of the response being processed
    iexit,                \* how the last indexing run ended
    iruns,                \* number of indexing runs started
    \* ---- history of the indexing runs
    \* the persisted watermark when the run started
    max_seen,             \* the latest creation date the catalog returned in the run
    \* files_indexed and files_index_skipped at the start
    scan_before,          \* the persisted watermark when the last run began
    changed,              \* the remote library changed since the last run began
    twice,                \* this run repeats the last one on an unchanged library
    \* ---- history of the Reconciler (check_for_removed)
    files_before,         \* the files when check_for_removed was called
    reconciled            \* check_for_removed has run

persistVars == <<store, scan_date, files, ledger_file>>
instVars == <<bad_ids, pool_future_to_media, futures, files_downloaded,
              files_download_started, files_download_skipped,
              files_download_failed>>
coordVars == <<pc, candidates, batch, queue, futures_left, raised, exit,
               stored, reported, runs>>
histVars == <<screen_outcome, resolved, get_result, fallback_of,
              bad_at_screen>>
indexVars == <<library, latest_download, startDate, endDate, rescan,
               includeVideo, files_indexed, files_index_skipped, ipc,
               start_date, remaining, page, iexit, iruns, max_seen,
                   scan_before, changed, twice>>
reconVars == <<files_before, reconciled>>
\* what the download run leaves alone
restVars == <<indexVars, reconVars>>
vars == <<persistVars, instVars, coordVars, histVars, indexVars, reconVars>>

(***************************************************************************)
(* Helpers on sequences.                                                   *)
(***************************************************************************)
Range(s) == {s[k] : k \in 1..Len(s)}
Min(a, b) == IF a < b THEN a ELSE b
Max(S) == CHOOSE x \in S : \A y \in S : x >= y
Take(s, n) == SubSeq(s, 1, Min(n, Len(s)))
Drop(s, n) == SubSeq(s, Min(n, Len(s)) + 1, Len(s))
Without(s, x) == SelectSeq(s, LAMBDA y : y # x)

RECURSIVE SortedSeq(_)
SortedSeq(S) ==
    IF S = {} THEN <<>>
    ELSE LET m == CHOOSE x \in S : \A y \in S : x <= y
         IN <<m>> \o SortedSeq(S \ {m})

(***************************************************************************)
(* The metadata store (LocalData) and the ledger (BadIds).                 *)
(***************************************************************************)
Record(i, dup, modify, downloaded) ==
    [Id |-> i, Folder |-> RelativeFolder(i), FileName |-> FileName(i, dup),
     CreateDate |-> CreateDate(i), ModifyDate |-> modify,
     Downloaded |-> downloaded]

RecordOf(st, i) == CHOOSE r \in st : r.Id = i

\* LocalData.put_downloaded(id)
put_downloaded(st, i) ==
    {IF r.Id = i THEN [r EXCEPT !.Downloaded = TRUE] ELSE r : r \in st}

\* DatabaseMedia.get_media_by_search(skip_downloaded): the ids, in the
\* store's order
get_media_by_search(st, skip_downloaded) ==
    SortedSeq({r.Id : r \in {x \in st : ~skip_downloaded \/ ~x.Downloaded}})

\* BadIds.check_id_ok(id)
check_id_ok(bad, i) == i \notin bad
\* BadIds.add_id(path, id, url): idempotent
add_id(bad, i) == bad \cup {i}

(***************************************************************************)
(* The download worker: do_download_file, run by a thread of the pool.     *)
(***************************************************************************)
NoFuture == [state |-> "none", step |-> "-", exc |-> "None"]
\* a future the coordinator has collected and deleted from the dict
Collected == [state |-> "collected", step |-> "-", exc |-> "None"]

\* the statements of the try block, in order: "get" is the session.get of
\* line 262, "copy" the copyfileobj and the two close calls of lines
\* 264-266, "rename" line 267 and "utime" line 268
NextStep(s) ==
    CASE s = "get" -> "copy"
      [] s = "copy" -> "rename"
      [] s = "rename" -> "utime"
      [] s = "utime" -> "end"

\* the steps that precede os.rename
BeforeRename == {"get", "copy"}

\* what the statement at step s can raise
StepExc(s) == IF s \in {"get", "copy"} THEN NetExc ELSE FileExc

\* os.rename(temp_file.name, local_full_path)
os_rename(fs, r, run) ==
    (fs \ {temp_file(r, run)}) \cup {local_full_path(r)}

\* a variant of except_clauses that never removes the temporary file
except_clauses_no_remove(fs, r, run, e) == [files |-> fs, exc |-> e]

\* the two except clauses: KeyboardInterrupt is re-raised as it is, every
\* other exception removes the temporary file first (and os.remove raises
\* itself when the file is no longer there)
except_clauses(fs, r, run, e) ==
    IF e = "KeyboardInterrupt"
    THEN [files |-> fs, exc |-> e]
    ELSE IF temp_file(r, run) \in fs
         THEN [files |-> fs \ {temp_file(r, run)}, exc |-> e]
         ELSE [files |-> fs, exc |-> "FileNotFoundError"]

\* a thread of the pool takes the work item: the future starts running and
\* the temporary file is created in the destination folder
WorkerStart(i) ==
    /\ futures[i].state = "pending"
    /\ futures' = [futures EXCEPT ![i] = [@ EXCEPT !.state = "running",
                                                    !.step = "get"]]
    /\ files' = files \cup {temp_file(RecordOf(store, i), runs)}
    /\ UNCHANGED <<restVars, store, scan_date, ledger_file, bad_ids,
                   pool_future_to_media, files_downloaded,
                   files_download_started, files_download_skipped,
                   files_download_failed, coordVars, histVars>>

\* the statement at the current step succeeds
WorkerStep(i) ==
    /\ futures[i].state = "running"
    /\ LET s == futures[i].step
           n == NextStep(s)
       IN /\ futures' = [futures EXCEPT ![i] =
                 IF n = "end"
                 THEN [@ EXCEPT !.state = "done", !.step = "end"]
                 ELSE [@ EXCEPT !.step = n]]
          /\ files' = IF s = "rename"
                      THEN os_rename(files, RecordOf(store, i), runs)
                      ELSE files
    /\ UNCHANGED <<restVars, store, scan_date, ledger_file, bad_ids,
                   pool_future_to_media, files_downloaded,
                   files_download_started, files_download_skipped,
                   files_download_failed, coordVars, histVars>>

\* the statement at the current step raises e. KeyboardInterrupt is the
\* user's interrupt: Python raises it in the coordinating (main) thread in
\* any case, so a worker sees it only in a run the user has interrupted
WorkerRaise(i, e) ==
    /\ futures[i].state = "running"
    /\ e \in StepExc(futures[i].step)
    /\ e = "KeyboardInterrupt" => raised = "KeyboardInterrupt"
    /\ LET h == except_clauses(files, RecordOf(store, i), runs, e)
       IN /\ files' = h.files
          /\ futures' = [futures EXCEPT ![i] =
                 [@ EXCEPT !.state = "done", !.step = "end", !.exc = h.exc]]
    /\ UNCHANGED <<restVars, store, scan_date, ledger_file, bad_ids,
                   pool_future_to_media, files_downloaded,
                   files_download_started, files_download_skipped,
                   files_download_failed, coordVars, histVars>>

(***************************************************************************)
(* The coordinating thread.                                                *)
(***************************************************************************)
\* Future.done(): finished or cancelled
done(f) == f.state \in {"done", "cancelled"}

\* `e == KeyboardInterrupt` compares an exception instance with the class
ExcEqualsClass(e, cls) == FALSE

\* isinstance(e, requests.HTTPError)
isinstance(e, cls) == e = cls

\* a variant of do_download_complete_one that adds every failed item to
\* the ledger
do_download_complete_one_quarantine_all(c, f, e) ==
    IF e # "None"
    THEN [c EXCEPT !.failed = @ + 1,
                   !.bad = add_id(@, f),
                   !.pool = Without(@, f)]
    ELSE [c EXCEPT !.store = put_downloaded(@, f),
                   !.downloaded = @ + 1,
                   !.pool = Without(@, f)]

\* a variant of do_download_complete_one that marks the record downloaded
\* whatever the result of the task
do_download_complete_one_mark_always(c, f, e) ==
    IF e # "None"
    THEN [c EXCEPT !.failed = @ + 1,
                   !.store = put_downloaded(@, f),
                   !.bad = IF isinstance(e, "HTTPError") THEN add_id(@, f) ELSE @,
                   !.pool = Without(@, f)]
    ELSE [c EXCEPT !.store = put_downloaded(@, f),
                   !.downloaded = @ + 1,
                   !.pool = Without(@, f)]

\* a variant of do_download_complete_one that counts a failed task as a
\* download as well
do_download_complete_one_double_count(c, f, e) ==
    IF e # "None"
    THEN [c EXCEPT !.failed = @ + 1,
                   !.downloaded = @ + 1,
                   !.bad = IF isinstance(e, "HTTPError") THEN add_id(@, f) ELSE @,
                   !.pool = Without(@, f)]
    ELSE [c EXCEPT !.store = put_downloaded(@, f),
                   !.downloaded = @ + 1,
                   !.pool = Without(@, f)]

\* the body of the loop of do_download_complete for one future; c holds the
\* fields of the instance the loop changes
do_download_complete_one(c, f, e) ==
    IF e # "None"
    THEN [c EXCEPT !.failed = @ + 1,
                   !.bad = IF isinstance(e, "HTTPError") THEN add_id(@, f) ELSE @,
                   !.raise = IF ExcEqualsClass(e, "KeyboardInterrupt") THEN e ELSE @,
                   !.pool = IF ExcEqualsClass(e, "KeyboardInterrupt")
                            THEN @ ELSE Without(@, f)]
    ELSE [c EXCEPT !.store = put_downloaded(@, f),
                   !.downloaded = @ + 1,
                   !.pool = Without(@, f)]

\* do_download_complete(futures_list), for futures that are all finished
RECURSIVE do_download_complete(_, _, _)
do_download_complete(c, futures_list, futs) ==
    IF futures_list = <<>> \/ c.raise # "None" THEN c
    ELSE do_download_complete(
             do_download_complete_one(c, Head(futures_list),
                                      futs[Head(futures_list)].exc),
             Tail(futures_list), futs)

\* the fields of the instance as the record do_download_complete works on
Fields ==
    [failed |-> files_download_failed, downloaded |-> files_downloaded,
     bad |-> bad_ids, store |-> store, pool |-> pool_future_to_media,
     raise |-> "None"]

SetFields(c) ==
    /\ futures' = [i \in Ids |->
           IF i \in Range(pool_future_to_media) /\ i \notin Range(c.pool)
           THEN Collected ELSE futures[i]]
    /\ files_download_failed' = c.failed
    /\ files_downloaded' = c.downloaded
    /\ bad_ids' = c.bad
    /\ store' = c.store
    /\ pool_future_to_media' = c.pool

(***************************************************************************)
(* download_photo_media: the screening of a block of candidates.           *)
(***************************************************************************)
\* a variant of ScreenOutcome that does not consult the ledger
ScreenOutcome_unchecked(fs, bad, r) ==
    IF local_full_path(r) \in fs THEN "exists" ELSE "batched"

\* a variant of ScreenOutcome that consults the ledger first
ScreenOutcome_ledger_first(fs, bad, r) ==
    IF ~check_id_ok(bad, r.Id) THEN "quarantined"
    ELSE IF local_full_path(r) \in fs THEN "exists"
    ELSE "batched"

\* lines 356-366: the file exists / the id is not quarantined / neither
ScreenOutcome(fs, bad, r) ==
    IF local_full_path(r) \in fs THEN "exists"
    ELSE IF check_id_ok(bad, r.Id) THEN "batched"
    ELSE "quarantined"

RECURSIVE put_downloaded_all(_, _)
put_downloaded_all(st, S) ==
    IF S = {} THEN st
    ELSE LET i == CHOOSE x \in S : TRUE
         IN put_downloaded_all(put_downloaded(st, i), S \ {i})

\* a new process: __init__ and the start of download_photo_media
StartDownload(retry) ==
    /\ pc = "idle"
    /\ runs < MaxRuns
    /\ \A i \in Ids : futures[i].state \notin {"pending", "running"}
    /\ runs' = runs + 1
    /\ bad_ids' = ledger_file
    /\ pool_future_to_media' = <<>>
    /\ futures' = [i \in Ids |-> NoFuture]
    /\ files_downloaded' = 0
    /\ files_download_started' = 0
    /\ files_download_skipped' = 0
    /\ files_download_failed' = 0
    /\ candidates' = get_media_by_search(store, ~retry)
    /\ batch' = <<>>
    /\ queue' = <<>>
    /\ futures_left' = <<>>
    /\ raised' = "None"
    /\ exit' = "running"
    /\ stored' = FALSE
    /\ reported' = FALSE
    /\ pc' = "screen"
    /\ screen_outcome' = [i \in Ids |-> "none"]
    /\ resolved' = {}
    /\ get_result' = [i \in Ids |-> "none"]
    /\ fallback_of' = {}
    /\ bad_at_screen' = {}
    /\ UNCHANGED <<persistVars, restVars>>

\* one block of the grouper: lines 347-369
ScreenBlock ==
    /\ pc = "screen"
    /\ candidates # <<>>
    /\ LET block == Take(candidates, BATCH_SIZE)
           out == [i \in Range(block) |->
                       ScreenOutcome(files, bad_ids, RecordOf(store, i))]
           exists == {i \in Range(block) : out[i] = "exists"}
           b == SelectSeq(block, LAMBDA i : out[i] = "batched")
       IN /\ files_download_skipped' = files_download_skipped + Cardinality(exists)
          /\ store' = put_downloaded_all(store, exists)
          /\ batch' = b
          /\ candidates' = Drop(candidates, BATCH_SIZE)
          /\ screen_outcome' = [i \in Ids |->
                 IF i \in Range(block) THEN out[i] ELSE screen_outcome[i]]
          /\ bad_at_screen' = bad_at_screen \cup
                 {i \in Range(block) : ~check_id_ok(bad_ids, i)}
          /\ pc' = IF Len(b) > 0 THEN "batchGet" ELSE "screen"
    /\ UNCHANGED <<restVars, scan_date, files, ledger_file, bad_ids,
                   pool_future_to_media, futures, files_downloaded,
                   files_download_started, files_download_failed,
                   queue, futures_left, raised, exit, stored, reported, runs,
                   resolved, get_result, fallback_of>>

\* the for loop over the blocks ends: control enters the finally clause
EndLoop ==
    /\ pc = "screen"
    /\ candidates = <<>>
    /\ pc' = "finally"
    /\ futures_left' = pool_future_to_media
    /\ batch' = <<>>
    /\ UNCHANGED <<restVars, persistVars, instVars, candidates, queue, raised,
                   exit, stored, reported, runs, histVars>>

(***************************************************************************)
(* download_batch and find_bad_items.                                      *)
(***************************************************************************)
\* where the coordinator goes when an item of the queue has been handled
AfterItem(p, rest) ==
    IF rest = <<>> THEN "screen"
    ELSE IF p = "fallback_dispatch" THEN "fallback" ELSE p

\* an exception leaves the for loop over the blocks: its locals are gone
Unwind ==
    /\ candidates' = <<>>
    /\ batch' = <<>>
    /\ queue' = <<>>

\* mediaItems.batchGet returns; some results may hold no mediaItem
BatchGetOk ==
    /\ pc = "batchGet"
    /\ \E got \in SUBSET Range(batch) :
          /\ queue' = SelectSeq(batch, LAMBDA i : i \in got)
          /\ pc' = IF got = {} THEN "screen" ELSE "dispatch"
    /\ resolved' = resolved \cup Range(batch)
    /\ UNCHANGED <<restVars, persistVars, instVars, candidates, batch, futures_left,
                   raised, exit, stored, reported, runs, screen_outcome,
                   get_result, fallback_of, bad_at_screen>>

\* mediaItems.batchGet raises e: HTTPError and RetryError are caught and
\* lead to find_bad_items, anything else leaves download_batch
BatchGetRaise(e) ==
    /\ pc = "batchGet"
    /\ e \in ApiExc
    /\ resolved' = resolved \cup Range(batch)
    /\ IF e \in CaughtApiExc
       THEN /\ queue' = batch
            /\ pc' = "fallback"
            /\ fallback_of' = fallback_of \cup Range(batch)
            /\ UNCHANGED <<raised, futures_left>>
            /\ UNCHANGED <<candidates, batch>>
       ELSE /\ pc' = "finally"
            /\ raised' = e
            /\ futures_left' = pool_future_to_media
            /\ Unwind
            /\ UNCHANGED fallback_of
    /\ UNCHANGED <<restVars, persistVars, instVars, exit, stored,
                   reported, runs, screen_outcome, get_result, bad_at_screen>>

\* a variant of PoolFull that lets one task too many in (> for >=)
PoolFull_off_by_one(pool) == Len(pool) > MAX_THREADS

\* download_file, line 307: the pool is full
PoolFull(pool) == Len(pool) >= MAX_THREADS

\* download_file, lines 307-315: one turn of the polling loop that finds
\* finished futures
DownloadFilePoll ==
    /\ pc \in {"dispatch", "fallback_dispatch"}
    /\ PoolFull(pool_future_to_media)
    /\ LET done_list == SelectSeq(pool_future_to_media,
                                  LAMBDA f : done(futures[f]))
       IN /\ done_list # <<>>
          /\ SetFields(do_download_complete(Fields, done_list, futures))
    /\ UNCHANGED <<restVars, scan_date, files, ledger_file,
                   files_download_started, files_download_skipped,
                   coordVars, histVars>>

\* download_file, lines 317-323: submit the task to the pool
DownloadFileSubmit ==
    /\ pc \in {"dispatch", "fallback_dispatch"}
    /\ ~PoolFull(pool_future_to_media)
    /\ LET i == Head(queue)
       IN /\ files_download_started' = files_download_started + 1
          /\ futures' = [futures EXCEPT ![i] = [NoFuture EXCEPT !.state = "pending"]]
          /\ pool_future_to_media' = Append(pool_future_to_media, i)
          /\ queue' = Tail(queue)
          /\ pc' = AfterItem(pc, Tail(queue))
    /\ UNCHANGED <<restVars, persistVars, bad_ids, files_downloaded,
                   files_download_skipped, files_download_failed,
                   candidates, batch, futures_left, raised, exit, stored,
                   reported, runs, histVars>>

\* find_bad_items, lines 417-419: the get of one item returns
FallbackGetOk ==
    /\ pc = "fallback"
    /\ LET i == Head(queue)
       IN /\ resolved' = resolved \cup {i}
          /\ get_result' = [get_result EXCEPT ![i] = "ok"]
    /\ pc' = "fallback_dispatch"
    /\ UNCHANGED <<restVars, persistVars, instVars, candidates, batch, queue,
                   futures_left, raised, exit, stored, reported, runs,
                   screen_outcome, fallback_of, bad_at_screen>>

\* a variant of bad_item that does not count the failure
bad_item_uncounted(c, i) == [c EXCEPT !.bad = add_id(@, i)]

\* what find_bad_items does to the instance when the get of item i raised
\* a caught exception: lines 420-424
bad_item(c, i) == [c EXCEPT !.bad = add_id(@, i), !.failed = @ + 1]

\* find_bad_items, lines 420-429: the get of one item raises e
FallbackGetRaise(e) ==
    /\ pc = "fallback"
    /\ e \in ApiExc
    /\ LET i == Head(queue)
       IN /\ resolved' = resolved \cup {i}
          /\ get_result' = [get_result EXCEPT ![i] =
                 IF e \in CaughtApiExc THEN "failed" ELSE "escaped"]
          /\ IF e \in CaughtApiExc
             THEN /\ SetFields(bad_item(Fields, i))
                  /\ queue' = Tail(queue)
                  /\ pc' = AfterItem(pc, Tail(queue))
                  /\ UNCHANGED <<raised, futures_left, candidates, batch>>
             ELSE /\ pc' = "finally"
                  /\ raised' = e
                  /\ futures_left' = pool_future_to_media
                  /\ Unwind
                  /\ UNCHANGED <<store, bad_ids, pool_future_to_media,
                                 futures, files_downloaded,
                                 files_download_failed>>
    /\ UNCHANGED <<restVars, scan_date, files, ledger_file,
                   files_download_started, files_download_skipped,
                   exit, stored, reported, runs,
                   screen_outcome, fallback_of, bad_at_screen>>

\* Future.cancel(): only a future that is not yet running is cancelled
cancel(f) == IF f.state = "pending" THEN [f EXCEPT !.state = "cancelled"] ELSE f

\* lines 400-405: the except KeyboardInterrupt clause of download_batch
cancel_all(futs, pool) ==
    [i \in Ids |-> IF i \in Range(pool) THEN cancel(futs[i]) ELSE futs[i]]

\* the user interrupts the coordinating thread inside the try block of
\* download_photo_media. Inside the try block of download_batch the
\* futures are cancelled; the interrupt propagates to the finally clause
Interrupt ==
    /\ pc \in {"screen", "batchGet", "dispatch", "fallback", "fallback_dispatch"}
    /\ futures' = IF pc \in {"batchGet", "dispatch"}
                  THEN cancel_all(futures, pool_future_to_media)
                  ELSE futures
    /\ pc' = "finally"
    /\ raised' = "KeyboardInterrupt"
    /\ futures_left' = pool_future_to_media
    /\ Unwind
    /\ UNCHANGED <<restVars, persistVars, bad_ids, pool_future_to_media,
                   files_downloaded, files_download_started,
                   files_download_skipped, files_download_failed,
                   exit, stored, reported, runs, histVars>>

(***************************************************************************)
(* The finally clause of download_photo_media: lines 370-379.              *)
(***************************************************************************)
\* do_download_complete(futures_left), one future: future.exception()
\* waits for the future and raises CancelledError for a cancelled one,
\* which leaves the finally clause
FinallyComplete ==
    /\ pc = "finally"
    /\ futures_left # <<>>
    /\ LET f == Head(futures_left)
       IN /\ done(futures[f])
          /\ IF futures[f].state = "cancelled"
             THEN /\ pc' = "idle"
                  /\ exit' = "CancelledError"
                  /\ futures_left' = <<>>
                  /\ UNCHANGED <<store, bad_ids, pool_future_to_media,
                                 futures, files_downloaded,
                                 files_download_failed>>
             ELSE /\ SetFields(do_download_complete(Fields, <<f>>, futures))
                  /\ futures_left' = Tail(futures_left)
                  /\ UNCHANGED <<pc, exit>>
    /\ UNCHANGED <<restVars, scan_date, files, ledger_file,
                   files_download_started, files_download_skipped,
                   candidates, batch, queue, raised, stored, reported, runs,
                   histVars>>

\* the summary, bad_ids.store_ids() and bad_ids.report(); then the pending
\* exception, if any, propagates
FinallyStore ==
    /\ pc = "finally"
    /\ futures_left = <<>>
    /\ ledger_file' = bad_ids
    /\ stored' = TRUE
    /\ reported' = TRUE
    /\ exit' = IF raised = "None" THEN "returned" ELSE raised
    /\ pc' = "idle"
    /\ UNCHANGED <<restVars, store, scan_date, files, instVars, candidates, batch,
                   queue, futures_left, raised, runs, histVars>>

(***************************************************************************)
(* The remote catalog and the Indexer: index_photos_media.                 *)
(***************************************************************************)
\* GooglePhotosSync.PAGE_SIZE (100 in the source), scaled down
PAGE_SIZE == 1
\* number of indexing runs in one behaviour
MaxIndexRuns == 2

\* the days a start or end date can name
Days == 0..Day(CreateDate(NumMedia))
\* the modification timestamps of a remote item
ModifyDates == {MinimumDate, MinimumDate + 1}

\* Utils.string_to_date: the date at the start of the day the string names
string_to_date(val) == val * TicksPerDay

\* the start_date and end_date setters: `if val:` keeps the old value for
\* None (and for an empty string)
date_setter(old, val) == IF val # NoDate THEN string_to_date(val) ELSE old

\* __init__, line 53: self._db.get_scan_date() or Utils.minimum_date()
initial_latest_download(scan) == IF scan # NoDate THEN scan ELSE MinimumDate

\* lines 198-201: the start boundary of the run
effective_start(rs, sd, scan) ==
    IF rs THEN NoDate
    ELSE IF sd # NoDate THEN sd ELSE scan

\* search_media and the remote service behind it: without criteria the
\* whole library is listed, otherwise the items whose creation day lies in
\* the range of days and whose type is asked for
search_media(lib, start, end, do_video) ==
    IF start = NoDate /\ end = NoDate /\ do_video
    THEN {it.id : it \in lib}
    ELSE {it.id : it \in {x \in lib :
              /\ start # NoDate => Day(CreateDate(x.id)) >= Day(start)
              /\ end # NoDate => Day(CreateDate(x.id)) <= Day(end)
              /\ do_video \/ ~IsVideo(x.id)}}

\* the duplicate number of a descriptor: the one of its record when it has
\* one, else the number of records with its folder and original name
duplicate_number(st, i) ==
    IF \E r \in st : r.Id = i
    THEN (CHOOSE r \in st : r.Id = i).FileName[3]
    ELSE Cardinality({r \in st : r.Folder = RelativeFolder(i)
                                  /\ r.FileName[2] = OrigName(i)})

\* LocalData.get_file_by_path(folder, name): the records with this key
get_file_by_path(st, folder, name) ==
    {r \in st : r.Folder = folder /\ r.FileName = name}

\* GooglePhotosMedia.is_indexed: the records with the descriptor's key
is_indexed(st, i) ==
    get_file_by_path(st, RelativeFolder(i), FileName(i, duplicate_number(st, i)))

\* media.save_to_db(db, update): insert the record, or update it in place
save_to_db(st, i, modify, update) ==
    IF update
    THEN {IF r.Id = i THEN [r EXCEPT !.ModifyDate = modify] ELSE r : r \in st}
    ELSE st \cup {Record(i, duplicate_number(st, i), modify, FALSE)}

\* a variant of new_latest_download that takes every date (no comparison)
new_latest_download_unguarded(latest, create_date) == create_date

\* write_media_index, lines 145-146
new_latest_download(latest, create_date) ==
    IF create_date > latest THEN create_date ELSE latest

\* a variant of is_newer that also takes an equal date (>= for >)
is_newer_or_equal(modify_date, row_modify) == modify_date >= row_modify

\* line 222: media_item.modify_date > row.ModifyDate
is_newer(modify_date, row_modify) == modify_date > row_modify

\* the body of the for loop, lines 212-233, for one descriptor; x holds
\* what the loop changes
index_item(x, it) ==
    LET row == is_indexed(x.store, it.id)
    IN IF row = {}
       THEN [x EXCEPT !.indexed = @ + 1,
                      !.store = save_to_db(@, it.id, it.modify, FALSE),
                      !.latest = new_latest_download(@, CreateDate(it.id))]
       ELSE IF is_newer(it.modify, (CHOOSE r \in row : TRUE).ModifyDate)
       THEN [x EXCEPT !.indexed = @ + 1,
                      !.store = save_to_db(@, it.id, it.modify, TRUE),
                      !.latest = new_latest_download(@, CreateDate(it.id))]
       ELSE [x EXCEPT !.skipped = @ + 1]

\* the for loop over the mediaItems of a response, in the order of the
\* response (reverse date order)
RECURSIVE index_items(_, _)
index_items(x, S) ==
    IF S = {} THEN x
    ELSE LET it == CHOOSE y \in S : \A z \in S : y.id >= z.id
         IN index_items(index_item(x, it), S \ {it})

\* line 245: the watermark is written unless a start date was set
writes_scan_date(sd) == sd = NoDate

\* the configuration of a run
Config == [start |-> startDate, end |-> endDate, rescan |-> rescan,
           video |-> includeVideo]

\* a program run indexes: a new instance is constructed (__init__), the
\* setters are called with these values and index_photos_media is called
IndexStart(sd, ed, rs, vid) ==
    /\ ipc = "idle"
    /\ pc = "idle"
    /\ iruns < MaxIndexRuns
    /\ iruns' = iruns + 1
    /\ LET new_start == date_setter(NoDate, sd)
           new_end == date_setter(NoDate, ed)
           local == effective_start(rs, new_start, scan_date)
           cfg == [start |-> new_start, end |-> new_end, rescan |-> rs,
                   video |-> vid]
       IN /\ startDate' = new_start
          /\ endDate' = new_end
          /\ start_date' = local
          /\ remaining' = search_media(library, local, new_end, vid)
          /\ twice' = (iexit = "completed" /\ ~changed /\ cfg = Config)
    /\ rescan' = rs
    /\ includeVideo' = vid
    /\ latest_download' = initial_latest_download(scan_date)
    /\ files_indexed' = 0
    /\ files_index_skipped' = 0
    /\ page' = {}
    /\ max_seen' = NoDate
    /\ scan_before' = scan_date
    /\ changed' = FALSE
    /\ iexit' = "running"
    /\ ipc' = "search"
    /\ UNCHANGED <<persistVars, instVars, coordVars, histVars, reconVars,
                   library>>

\* a search_media call returns: a page of at most PAGE_SIZE descriptors of
\* those not yet returned, and a nextPageToken when more are left
CatalogReturn ==
    /\ ipc = "search"
    /\ \E P \in SUBSET remaining :
          /\ Cardinality(P) = Min(PAGE_SIZE, Cardinality(remaining))
          /\ page' = {it \in library : it.id \in P}
          /\ remaining' = remaining \ P
          /\ max_seen' = Max({max_seen} \cup {CreateDate(i) : i \in P})
    /\ ipc' = "process"
    /\ UNCHANGED <<persistVars, instVars, coordVars, histVars, reconVars,
                   library, latest_download, startDate, endDate, rescan,
                   includeVideo, files_indexed, files_index_skipped,
                   start_date, iexit, iruns, scan_before, changed, twice>>

\* a variant of CatalogRaise that writes the watermark on the way out (as
\* if line 246 stood in a finally clause)
CatalogRaise_writes_watermark ==
    /\ ipc = "search"
    /\ ipc' = "idle"
    /\ iexit' = "error"
    /\ remaining' = {}
    /\ start_date' = NoDate
    /\ scan_date' = IF writes_scan_date(startDate)
                    THEN latest_download ELSE scan_date
    /\ UNCHANGED <<store, files, ledger_file, instVars, coordVars, histVars,
                   reconVars, library, latest_download, startDate, endDate,
                   rescan, includeVideo, files_indexed, files_index_skipped,
                   page, iruns, max_seen, scan_before, changed, twice>>

\* a search_media call raises: the exception leaves index_photos_media
CatalogRaise ==
    /\ ipc = "search"
    /\ ipc' = "idle"
    /\ iexit' = "error"
    /\ remaining' = {}
    /\ start_date' = NoDate
    /\ UNCHANGED <<persistVars, instVars, coordVars, histVars, reconVars,
                   library, latest_download, startDate, endDate, rescan,
                   includeVideo, files_indexed, files_index_skipped,
                   page, iruns, max_seen,
                   scan_before, changed, twice>>

\* lines 207-246: the response is processed; with a nextPageToken the next
\* page is asked for, without one (or with an empty response) the loop
\* ends and the watermark is written
IndexPage ==
    /\ ipc = "process"
    /\ LET x == index_items([store |-> store, latest |-> latest_download,
                             indexed |-> files_indexed,
                             skipped |-> files_index_skipped], page)
           more == page # {} /\ remaining # {}
       IN /\ store' = x.store
          /\ latest_download' = x.latest
          /\ files_indexed' = x.indexed
          /\ files_index_skipped' = x.skipped
          /\ IF more
             THEN /\ ipc' = "search"
                  /\ UNCHANGED <<scan_date, iexit, start_date>>
             ELSE /\ ipc' = "idle"
                  /\ start_date' = NoDate
                  /\ iexit' = "completed"
                  /\ scan_date' = IF writes_scan_date(startDate)
                                  THEN x.latest ELSE scan_date
    /\ page' = {}
    /\ UNCHANGED <<files, ledger_file, instVars, coordVars, histVars,
                   reconVars, library, startDate, endDate, rescan,
                   includeVideo, remaining, iruns, max_seen,
                   scan_before, changed, twice>>

\* lines 211-214, which no try statement encloses: a descriptor of the
\* response is malformed, and GooglePhotosMedia(media_item_json),
\* set_path_by_date or is_indexed raises on it; the descriptors before it
\* have been processed, and the exception leaves index_photos_media. A run
\* that repeats a completed run against the unchanged library gets the
\* descriptors the first run has processed, so none of them raises
DescriptorRaise ==
    /\ ipc = "process"
    /\ ~twice
    /\ \E bad \in page :
          LET x == index_items([store |-> store, latest |-> latest_download,
                                indexed |-> files_indexed,
                                skipped |-> files_index_skipped],
                               {it \in page : it.id > bad.id})
          IN /\ store' = x.store
             /\ latest_download' = x.latest
             /\ files_indexed' = x.indexed
             /\ files_index_skipped' = x.skipped
    /\ ipc' = "idle"
    /\ iexit' = "error"
    /\ remaining' = {}
    /\ page' = {}
    /\ start_date' = NoDate
    /\ UNCHANGED <<scan_date, files, ledger_file, instVars, coordVars,
                   histVars, reconVars, library, startDate, endDate, rescan,
                   includeVideo, iruns, max_seen, scan_before, changed,
                   twice>>

\* the remote library changes between two runs, in one place: an item is
\* added
RemoteAdd(i) ==
    /\ ipc = "idle"
    /\ iruns < MaxIndexRuns
    /\ ~changed
    /\ \A it \in library : it.id # i
    /\ library' = library \cup {[id |-> i, modify |-> MinimumDate]}
    /\ changed' = TRUE
    /\ UNCHANGED <<persistVars, instVars, coordVars, histVars, reconVars,
                   latest_download, startDate, endDate, rescan,
                   includeVideo, files_indexed, files_index_skipped, ipc,
                   start_date, remaining, page, iexit, iruns, max_seen,
                   scan_before, twice>>

\* an item is removed from the remote library
RemoteRemove(i) ==
    /\ ipc = "idle"
    /\ iruns < MaxIndexRuns
    /\ ~changed
    /\ \E it \in library : it.id = i
    /\ library' = {it \in library : it.id # i}
    /\ changed' = TRUE
    /\ UNCHANGED <<persistVars, instVars, coordVars, histVars, reconVars,
                   latest_download, startDate, endDate, rescan,
                   includeVideo, files_indexed, files_index_skipped, ipc,
                   start_date, remaining, page, iexit, iruns, max_seen,
                   scan_before, twice>>

\* an item of the remote library is modified
RemoteModify(i) ==
    /\ ipc = "idle"
    /\ iruns < MaxIndexRuns
    /\ ~changed
    /\ \E it \in library : it.id = i /\ it.modify + 1 \in ModifyDates
    /\ library' = {IF it.id = i THEN [it EXCEPT !.modify = @ + 1] ELSE it :
                      it \in library}
    /\ changed' = TRUE
    /\ UNCHANGED <<persistVars, instVars, coordVars, histVars, reconVars,
                   latest_download, startDate, endDate, rescan,
                   includeVideo, files_indexed, files_index_skipped, ipc,
                   start_date, remaining, page, iexit, iruns, max_seen,
                   scan_before, twice>>

(***************************************************************************)
(* The Reconciler: check_for_removed.                                      *)
(***************************************************************************)
\* os.walk(start_folder): the files below root_folder/photos
walked(fs) == {f \in fs : Len(f.dir) >= 1 /\ f.dir[1] = "photos"}

\* a variant of is_skipped that knows hidden files only
is_skipped_hidden_only(name) == name[1] = "."

\* line 135: file_name.startswith('.') or file_name.startswith('gphotos')
is_skipped(name) == name[1] = "." \/ name[1] = "gphotos"

\* lines 132-141: the files check_for_removed removes
removed(fs, st) ==
    {f \in walked(fs) :
        /\ ~is_skipped(f.name)
        /\ get_file_by_path(st, f.dir, f.name) = {}}

check_for_removed ==
    /\ pc = "idle"
    /\ ipc = "idle"
    /\ ~reconciled
    /\ files_before' = files
    /\ files' = files \ removed(files, store)
    /\ reconciled' = TRUE
    /\ UNCHANGED <<store, scan_date, ledger_file, instVars, coordVars,
                   histVars, indexVars>>

\* the local tree changes before the Reconciler runs: a file appears
FileAppears(f) ==
    /\ ~reconciled
    /\ f \notin files
    /\ files' = files \cup {f}
    /\ UNCHANGED <<store, scan_date, ledger_file, instVars, coordVars,
                   histVars, indexVars, reconVars>>

(***************************************************************************)
(* The download specification.                                             *)
(***************************************************************************)
\* the duplicate number the Indexer gave the record of item i
DupOf(i) ==
    Cardinality({j \in 1..(i - 1) :
        RelativeFolder(j) = RelativeFolder(i) /\ OrigName(j) = OrigName(i)})

\* a GooglePhotosSync instance after __init__, with no run under way
AtRest ==
    /\ bad_ids = {}
    /\ pool_future_to_media = <<>>
    /\ futures = [i \in Ids |-> NoFuture]
    /\ files_downloaded = 0
    /\ files_download_started = 0
    /\ files_download_skipped = 0
    /\ files_download_failed = 0
    /\ pc = "idle"
    /\ candidates = <<>>
    /\ batch = <<>>
    /\ queue = <<>>
    /\ futures_left = <<>>
    /\ raised = "None"
    /\ exit = "none"
    /\ stored = FALSE
    /\ reported = FALSE
    /\ runs = 0
    /\ screen_outcome = [i \in Ids |-> "none"]
    /\ resolved = {}
    /\ get_result = [i \in Ids |-> "none"]
    /\ fallback_of = {}
    /\ bad_at_screen = {}
    /\ latest_download = initial_latest_download(scan_date)
    /\ startDate = NoDate
    /\ endDate = NoDate
    /\ rescan = FALSE
    /\ includeVideo = TRUE
    /\ files_indexed = 0
    /\ files_index_skipped = 0
    /\ ipc = "idle"
    /\ start_date = NoDate
    /\ remaining = {}
    /\ page = {}
    /\ iexit = "none"
    /\ iruns = 0
    /\ max_seen = NoDate
    /\ scan_before = NoDate
    /\ changed = FALSE
    /\ twice = FALSE
    /\ files_before = {}
    /\ reconciled = FALSE

\* the store after every item of the library was indexed
IndexedStore == {Record(i, DupOf(i), MinimumDate, FALSE) : i \in Ids}

\* the download runs start from an indexed library and an empty mirror
Init ==
    /\ store = IndexedStore
    /\ scan_date = NoDate
    /\ files = {}
    /\ ledger_file = {}
    /\ library = {[id |-> i, modify |-> MinimumDate] : i \in Ids}
    /\ AtRest

Next ==
    \/ \E retry \in BOOLEAN : StartDownload(retry)
    \/ ScreenBlock
    \/ EndLoop
    \/ BatchGetOk
    \/ \E e \in ApiExc : BatchGetRaise(e)
    \/ DownloadFilePoll
    \/ DownloadFileSubmit
    \/ FallbackGetOk
    \/ \E e \in ApiExc : FallbackGetRaise(e)
    \/ Interrupt
    \/ FinallyComplete
    \/ FinallyStore
    \/ \E i \in Ids : WorkerStart(i)
    \/ \E i \in Ids : WorkerStep(i)
    \/ \E i \in Ids, e \in NetExc : WorkerRaise(i, e)

Spec == Init /\ [][Next]_vars

\* the steps of the coordinating thread: it runs on, and a call of the API
\* returns or raises
Coordinator ==
    \/ ScreenBlock
    \/ EndLoop
    \/ BatchGetOk
    \/ \E e \in ApiExc : BatchGetRaise(e)
    \/ DownloadFilePoll
    \/ DownloadFileSubmit
    \/ FallbackGetOk
    \/ \E e \in ApiExc : FallbackGetRaise(e)
    \/ FinallyComplete
    \/ FinallyStore

\* the steps of the task of item i in the thread pool
Worker(i) ==
    \/ WorkerStart(i)
    \/ WorkerStep(i)
    \/ \E e \in NetExc : WorkerRaise(i, e)

\* the download runs under fair scheduling: the coordinating thread is not
\* starved, and the pool starts every submitted task and every started task
\* finishes (the transfers have timeouts). Nothing obliges the user to
\* start a run or to interrupt one
SpecFair ==
    /\ Init
    /\ [][Next]_vars
    /\ WF_vars(Coordinator)
    /\ \A i \in Ids : WF_vars(Worker(i))

\* the download runs start with a mirror and a ledger file left by earlier
\* runs, by another version of the program or by the user: any of the
\* final files may be there and any identifier may be quarantined
InitScreen ==
    /\ store = IndexedStore
    /\ scan_date = NoDate
    /\ files \in SUBSET {local_full_path(r) : r \in IndexedStore}
    /\ ledger_file \in SUBSET Ids
    /\ library = {[id |-> i, modify |-> MinimumDate] : i \in Ids}
    /\ AtRest

SpecScreen == InitScreen /\ [][Next]_vars

(***************************************************************************)
(* The indexing specification.                                             *)
(***************************************************************************)
\* the indexing runs start from an empty store and any remote library
InitIndex ==
    /\ store = {}
    /\ scan_date = NoDate
    /\ files = {}
    /\ ledger_file = {}
    /\ library \in {{[id |-> i, modify |-> MinimumDate] : i \in S} :
                       S \in SUBSET Ids}
    /\ AtRest

NextIndex ==
    \/ \E rs, vid \in BOOLEAN, sd, ed \in Days \cup {NoDate} :
          IndexStart(sd, ed, rs, vid)
    \/ CatalogReturn
    \/ CatalogRaise
    \/ IndexPage
    \/ DescriptorRaise
    \/ \E i \in Ids : RemoteAdd(i)
    \/ \E i \in Ids : RemoteRemove(i)
    \/ \E i \in Ids : RemoteModify(i)

SpecIndex == InitIndex /\ [][NextIndex]_vars

(***************************************************************************)
(* The reconciliation specification.                                       *)
(***************************************************************************)
\* the files the local tree may hold: the files of the records, and for
\* every folder a file no record knows, a hidden file, a file of the
\* engine and a file outside the media folder
Folders == {RelativeFolder(i) : i \in Ids}
LocalFiles ==
    {Path(RelativeFolder(i), FileName(i, DupOf(i))) : i \in Ids}
    \cup {Path(d, n) : d \in Folders,
                       n \in {<<"IMG", NumMedia + 1, 0>>, <<".", 0, 0>>,
                              <<"gphotos", 0, 0>>}}
    \cup {Path(<<"albums", 0>>, <<"IMG", 0, 0>>)}

InitReconcile ==
    /\ store \in SUBSET IndexedStore
    /\ scan_date = NoDate
    /\ files = {}
    /\ ledger_file = {}
    /\ library = {}
    /\ AtRest

NextReconcile ==
    \/ \E f \in LocalFiles : FileAppears(f)
    \/ check_for_removed

SpecReconcile == InitReconcile /\ [][NextReconcile]_vars

(***************************************************************************)
(* Properties of the download run.                                         *)
(***************************************************************************)
\* the record of item i and its two paths in the current run
Rec(i) == RecordOf(store, i)
Final(i) == local_full_path(Rec(i))
Temp(i) == temp_file(Rec(i), runs)

\* the tasks submitted to the pool and not yet collected by the coordinator
InFlight == {i \in Ids : futures[i].state \in {"pending", "running", "done", "cancelled"}}

\* C1: the number of download tasks submitted to the pool and not yet
\* collected (the entries of pool_future_to_media) never exceeds
\* MAX_THREADS, so a task is only ever submitted while that number is
\* strictly below MAX_THREADS.
C1_BackpressureBound ==
    /\ Len(pool_future_to_media) <= MAX_THREADS
    /\ Cardinality(InFlight) <= MAX_THREADS
    /\ InFlight = Range(pool_future_to_media)

\* the pool is full again after more tasks were started than it holds: a
\* task was submitted after the coordinator had waited for a free thread
C1_Witness ==
    /\ Len(pool_future_to_media) = MAX_THREADS
    /\ files_download_started > MAX_THREADS

\* C2: a candidate whose identifier is in the Quarantine Ledger when it is
\* screened gets no URL resolution and no download task in that run, and a
\* run works with at least the persisted ledger, which it never shrinks.
C2_QuarantineExclusion ==
    /\ \A i \in bad_at_screen :
          /\ i \notin resolved
          /\ futures[i].state = "none"
          /\ i \in bad_ids
    /\ pc # "idle" => ledger_file \subseteq bad_ids

\* a later run has returned that screened an id the ledger held, an id
\* whose record is still not downloaded
C2_Witness ==
    /\ exit = "returned"
    /\ \E i \in bad_at_screen :
          /\ screen_outcome[i] = "quarantined"
          /\ ~Rec(i).Downloaded

\* a worker's task ends with an exception raised by a step before the rename
FailsBeforeRename(i) ==
    /\ futures[i].state = "running"
    /\ futures[i].step \in BeforeRename
    /\ futures'[i].state = "done"
    /\ futures'[i].exc # "None"

C4_ExitReporting ==
    exit \notin {"none", "running"} => (stored /\ reported)

\* the last indexing run completed
IndexCompleted == ipc = "idle" /\ iexit = "completed"

\* the last indexing run had no start date and no end date
Unbounded == startDate = NoDate /\ endDate = NoDate

\* C5: an Indexer run that was given a start date or an end date leaves the
\* persisted watermark exactly as it was before the run.
C5_BoundedRunKeepsWatermark ==
    (IndexCompleted /\ ~Unbounded) => scan_date = scan_before

\* C6: after every unbounded incremental Indexer run that completes, the
\* persisted watermark is greater than or equal to the watermark before
\* the run, whatever runs came before and whatever the library holds.
C6_WatermarkMonotone ==
    (IndexCompleted /\ Unbounded /\ ~rescan) => scan_date >= scan_before

\* an unbounded incremental run found a watermark and moved it forward
C6_Witness ==
    /\ IndexCompleted /\ Unbounded /\ ~rescan
    /\ scan_before # NoDate
    /\ scan_date > scan_before

\* C7: after an unbounded Indexer run completes, the persisted watermark is
\* the maximum creation timestamp over all the descriptors the catalog
\* returned during the run, the skipped ones included.
C7_WatermarkIsMaxSeen ==
    (IndexCompleted /\ Unbounded /\ max_seen # NoDate) => scan_date = max_seen

\* C8: when the Indexer runs a second time in succession with the same
\* settings against an unchanged remote library, every step of the second
\* run leaves the set of records as the first run left it, inserts and
\* updates nothing, and counts every descriptor of the page as skipped.
C8_Idempotence ==
    [][(twice /\ ipc = "process") =>
          /\ store' = store
          /\ files_indexed' = files_indexed
          /\ files_index_skipped' = files_index_skipped + Cardinality(page)]_vars

\* a second run has completed and skipped two items whose records share
\* the folder and the original name
C8_Witness ==
    /\ twice /\ IndexCompleted
    /\ files_index_skipped > 1
    /\ \E r1, r2 \in store :
          /\ r1.Id # r2.Id
          /\ r1.Folder = r2.Folder
          /\ r1.FileName[2] = r2.FileName[2]

\* the store has a record for the (relative folder, filename) key of f
HasRecord(f) == \E r \in store : r.Folder = f.dir /\ r.FileName = f.name

\* C9 as stated: after a Reconciler run, a file that was under the mirror
\* root before the run has been deleted if and only if the store has no
\* record for its key.
C9_ReconcileAllFiles ==
    reconciled =>
        \A f \in files_before : (f \notin files) <=> ~HasRecord(f)

\* C9, amended: after a Reconciler run, a file that was under the mirror
\* root before the run has been deleted if and only if it lay under the
\* media folder, its name starts neither with '.' nor with 'gphotos', and
\* the store has no record for its key; every other file is still there.
C9_ReconcileMediaFiles ==
    reconciled =>
        /\ files \subseteq files_before
        /\ \A f \in files_before :
              (f \notin files) <=>
                  /\ f.dir[1] = "photos"
                  /\ f.name[1] \notin {".", "gphotos"}
                  /\ ~HasRecord(f)

\* a run deleted a file and kept a file with a record, a file of the
\* engine and a file outside the media folder
C9_Witness ==
    /\ reconciled
    /\ \E f \in files_before : f \notin files
    /\ \E f \in files : HasRecord(f)
    /\ \E f \in files : f.name[1] = "gphotos" /\ ~HasRecord(f)
    /\ \E f \in files : f.dir[1] # "photos"

\* the items whose per-item get failed in the fallback
FailedGets == {i \in Ids : get_result[i] = "failed"}

Interrupted == raised = "KeyboardInterrupt"

\* C11: when the user interrupts a download run, no task stays queued
\* (every task not yet started is cancelled), the run is left by the
\* KeyboardInterrupt and by no other exception, and from the interrupt on
\* nothing is added to the Quarantine Ledger.
C11_InterruptCancelsAndPropagates ==
    /\ [](Interrupted =>
            /\ \A i \in Range(pool_future_to_media) : futures[i].state # "pending"
            /\ (pc = "idle" => exit = "KeyboardInterrupt"))
    /\ [][(Interrupted /\ pc = "finally") => bad_ids' = bad_ids]_vars

\* the futures a step of the coordinator collects, and the failed ones
CollectedNow ==
    {i \in Ids : futures[i].state = "done" /\ futures'[i].state = "collected"}
FailedNow == {i \in CollectedNow : futures[i].exc # "None"}

\* C12: when the coordinator collects finished tasks, every failed one is
\* counted as a failure and its record is left as it was; it is in the
\* ledger afterwards if and only if it failed with an HTTPError. A record
\* that is not downloaded is a candidate of the next run.
C12_FailureClassification ==
    [][/\ CollectedNow # {} =>
            /\ files_download_failed' =
                   files_download_failed + Cardinality(FailedNow)
            /\ \A i \in FailedNow :
                  /\ RecordOf(store', i) = RecordOf(store, i)
                  /\ ~RecordOf(store', i).Downloaded
                  /\ i \in bad_ids' <=> futures[i].exc = "HTTPError"
       /\ runs' # runs =>
            \A i \in Ids : ~Rec(i).Downloaded => i \in Range(candidates')]_vars

\* two tasks failed and were collected, nothing else happened: the one
\* that failed with an HTTPError is in the ledger, the other one is not,
\* and neither record is marked downloaded
C12_Witness ==
    /\ files_download_started = 2
    /\ files_download_failed = 2
    /\ fallback_of = {}
    /\ \E i, j \in Ids :
          /\ futures[i].state = "collected" /\ futures[j].state = "collected"
          /\ bad_ids = {i}
          /\ j \notin bad_ids
          /\ ~Rec(i).Downloaded /\ ~Rec(j).Downloaded

\* a step of a worker thread
WorkerMoves ==
    \E i \in Ids :
        /\ futures[i].state \in {"pending", "running"}
        /\ futures'[i].state \in {"running", "done"}
        /\ futures'[i] # futures[i]

\* C13: no step of a worker writes the store; the record of a dispatched
\* item is marked downloaded only in the step in which the coordinator
\* collects its task, which finished without error, and the file is at
\* the final path then; the record of an item that was not dispatched is
\* marked only while its file is at the final path.
C13_MarkDownloadedByCoordinator ==
    [][/\ WorkerMoves => store' = store
       /\ \A i \in Ids :
             (~Rec(i).Downloaded /\ RecordOf(store', i).Downloaded) =>
                 /\ Final(i) \in files
                 /\ futures[i].state # "none" =>
                       /\ futures[i].state = "done"
                       /\ futures[i].exc = "None"
                       /\ futures'[i].state = "collected"]_vars

\* a task was collected, its record is marked downloaded and the file is
\* at the final path, while another task is still running
C13_Witness ==
    \E i, j \in Ids :
        /\ futures[i].state = "collected"
        /\ Rec(i).Downloaded
        /\ Final(i) \in files
        /\ futures[j].state = "running"

\* C14: a download run is ended early by a cancellation only: when control
\* has left a run that the user did not interrupt, the run has returned
\* normally and has screened every candidate.
C14_NoFailureAbortsRun ==
    (pc = "idle" /\ exit # "none" /\ ~Interrupted) =>
        /\ exit = "returned"
        /\ \A i \in Ids : ~Rec(i).Downloaded => screen_outcome[i] # "none"

\* the start boundary the specification describes: the explicit start date
\* when one is given, else the watermark unless forceRescan, else none
described_start ==
    IF startDate # NoDate THEN startDate
    ELSE IF ~rescan THEN scan_before ELSE NoDate

\* C15: while an indexing run is between its first catalog query and its
\* end, the start boundary it passes to the catalog queries is the explicit
\* start date when one is given (also when forceRescan is set), otherwise
\* the persisted watermark when forceRescan is not set, otherwise unbounded;
\* the boundary does not change between the pages of a run.
C15_StartBoundary ==
    /\ [](ipc \in {"search", "process"} => start_date = described_start)
    /\ [][(ipc \in {"search", "process"} /\ ipc' \in {"search", "process"})
             => start_date' = start_date]_vars

\* C16: the processing of a response never ends the indexing run with an
\* error: when a descriptor of the page is malformed the others of the page
\* are still processed (every item of the page that is not the malformed
\* one is counted as indexed or as skipped) and the run goes on to the next
\* page or completes; only a catalog call ends a run with an error.
C16_MalformedDescriptorSkipped ==
    [][ipc = "process" =>
          /\ iexit' # "error"
          /\ ipc' = "search" \/ iexit' = "completed"
          /\ files_indexed' + files_index_skipped'
                >= files_indexed + files_index_skipped + Cardinality(page) - 1]_vars

\* C17: with every started task finishing, a download run that is not
\* interrupted eventually returns; when a run has returned no submitted
\* task is left uncollected (pool_future_to_media is empty, no future is
\* pending, running or done), and every task that finished successfully
\* has its record marked downloaded when it is collected.
C17_TerminationAndDrain ==
    /\ [](exit = "running" => <>(Interrupted \/ exit = "returned"))
    /\ [](exit = "returned" =>
             /\ pool_future_to_media = <<>>
             /\ \A i \in Ids : futures[i].state \in {"none", "collected"})
    /\ [][\A i \in Ids :
             (/\ futures[i].state = "done"
              /\ futures[i].exc = "None"
              /\ futures'[i].state = "collected")
                => RecordOf(store', i).Downloaded]_vars

\* a step that screens a block of candidates (lines 347-369)
Screens ==
    pc = "screen" /\ candidates' # candidates /\ pc' \in {"screen", "batchGet"}
\* the block it screens
Block == Range(Take(candidates, BATCH_SIZE))

\* C18: a step that screens a block gives every record of the block one of
\* three outcomes, decided in this order: its local file exists, then it is
\* marked downloaded and counted as already present and is not put into
\* the batch, also when its identifier is quarantined; else its identifier
\* is in the ledger, then its record is left as it is and it is not put
\* into the batch; else it is put into the batch. Nothing else is written
\* to the store. At every point of a run only records that were put into a
\* batch have been given to a URL resolution or have a download task.
C18_ScreeningOutcomes ==
    /\ [][Screens =>
             /\ \A i \in Block :
                   IF Final(i) \in files
                   THEN /\ RecordOf(store', i).Downloaded
                        /\ i \notin Range(batch')
                   ELSE IF i \in bad_ids
                   THEN /\ RecordOf(store', i) = Rec(i)
                        /\ i \notin Range(batch')
                   ELSE /\ RecordOf(store', i) = Rec(i)
                        /\ i \in Range(batch')
             /\ \A i \in Ids \ Block : RecordOf(store', i) = Rec(i)
             /\ Range(batch') \subseteq Block
             /\ files_download_skipped' = files_download_skipped
                   + Cardinality({i \in Block : Final(i) \in files})
             /\ bad_ids' = bad_ids /\ files' = files]_vars
    /\ [](\A i \in Ids :
             (\/ i \in resolved
              \/ futures[i].state # "none"
              \/ i \in Range(queue) \cup Range(batch))
                => screen_outcome[i] = "batched")
    /\ [][\A i \in Ids :
             screen_outcome'[i] # screen_outcome[i] /\ screen_outcome'[i] # "none"
                => /\ Screens /\ i \in Block
                   /\ screen_outcome'[i] = "batched"
                         <=> (Final(i) \notin files /\ i \notin bad_ids)]_vars

\* a run has screened a record whose file exists and whose identifier is
\* quarantined as already present, another as quarantined, and has put a
\* third into a batch
C18_Witness ==
    /\ \E i \in Ids :
          /\ screen_outcome[i] = "exists"
          /\ i \in bad_ids
          /\ Rec(i).Downloaded
    /\ \E i \in Ids : screen_outcome[i] = "batched" /\ i \in resolved

\* C19: a task that ends with the user's interrupt has deleted its
\* temporary file when it ends; so when an interrupted run has ended and
\* none of its tasks is waiting or running any more, no temporary file of
\* the run is in a destination folder.
C19_NoTempAfterCancel ==
    /\ [][\A i \in Ids :
             (/\ futures[i].state = "running"
              /\ futures'[i].state = "done"
              /\ futures'[i].exc = "KeyboardInterrupt")
                => Temp(i) \notin files']_vars
    /\ []((/\ pc = "idle"
           /\ Interrupted
           /\ \A i \in Ids : futures[i].state \notin {"pending", "running"})
             => \A i \in Ids : Temp(i) \notin files)

\* the items with a task whose result the coordinator has collected
CollectedTasks == {i \in Ids : futures[i].state = "collected"}
\* the items the current run has found to be already present
AlreadyPresent == {i \in Ids : screen_outcome[i] = "exists"}
\* the items the current run has submitted to the pool
Submitted == {i \in Ids : futures[i].state # "none"}

\* C20: at every point of a download run files_download_started is the
\* number of collected successes plus the number of collected task
\* failures plus the number of tasks still in pool_future_to_media
\* (files_download_failed also counts the failed per-item gets of the
\* fallback); when a run that was not interrupted has returned,
\* files_downloaded + files_download_failed = files_download_started plus
\* the number of failed per-item gets; and no item is counted twice: the
\* items counted as downloaded are the collected tasks whose record is
\* marked, and the already present, the submitted and the failed-get items
\* are disjoint sets of the sizes the counters give.
C20_CounterConservation ==
    /\ files_download_started
          = files_downloaded
            + (files_download_failed - Cardinality(FailedGets))
            + Len(pool_future_to_media)
    /\ (pc = "idle" /\ exit = "returned") =>
          files_downloaded + files_download_failed
             = files_download_started + Cardinality(FailedGets)
    /\ files_download_started = Cardinality(Submitted)
    /\ files_download_skipped = Cardinality(AlreadyPresent)
    /\ files_downloaded
          = Cardinality({i \in CollectedTasks : Rec(i).Downloaded})
    /\ files_download_failed
          = Cardinality({i \in CollectedTasks : ~Rec(i).Downloaded})
            + Cardinality(FailedGets)
    /\ Cardinality(CollectedTasks) + Len(pool_future_to_media)
          = Cardinality(Submitted)
    /\ AlreadyPresent \cap Submitted = {}
    /\ AlreadyPresent \cap FailedGets = {}
    /\ Submitted \cap FailedGets = {}

\* a run has returned with one download, no task failure and one failed
\* per-item get
C20_Witness ==
    /\ pc = "idle" /\ exit = "returned"
    /\ files_downloaded = 1
    /\ files_download_started = 1
    /\ files_download_failed = 1
    /\ Cardinality(FailedGets) = 1

\* a step in which a catalog call of the run fails
CatalogFails == ipc = "search" /\ ipc' = "idle"

\* C21: a step in which a catalog call fails (on the first page or on a
\* continuation page) ends the run with an error and leaves the persisted
\* watermark and the store as they are; no step of the Indexer removes a
\* record, so the records of the pages processed before remain; the
\* watermark changes only in the step that ends the page loop normally;
\* and after a run that ended with an error the watermark is the one the
\* run started with.
C21_CatalogFailureKeepsWatermark ==
    /\ [][CatalogFails =>
             /\ iexit' = "error"
             /\ scan_date' = scan_date
             /\ store' = store]_vars
    /\ [][\A r \in store : \E q \in store' : q.Id = r.Id]_vars
    /\ [][scan_date' # scan_date =>
             /\ ipc = "process"
             /\ ipc' = "idle"
             /\ iexit' = "completed"]_vars
    /\ []((ipc = "idle" /\ iexit = "error") => scan_date = scan_before)

\* a run that started from a written watermark has indexed an item newer
\* than the watermark and has then ended with an error: the record is in
\* the store and the watermark is the old one
C21_Witness ==
    /\ ipc = "idle" /\ iexit = "error"
    /\ files_indexed > 0
    /\ scan_date # NoDate
    /\ latest_download > scan_date
    /\ \E r \in store : r.CreateDate = latest_download

=============================================================================
